---- MODULE Spec2Model ----
(***************************************************************************)
(* State-machine model of the MeteoSwiss integration's refresh coordinator *)
(* (custom_components/meteoswiss/__init__.py) and of the entities that     *)
(* read the snapshots it publishes (weather.py, sensor.py).                *)
(***************************************************************************)
EXTENDS Integers, Sequences, FiniteSets, TLC

(***************************************************************************)
(* Bounds of the model.                                                    *)
(***************************************************************************)
\* The clock advances at most MaxTicks times, TickSeconds at a time.
MaxTicks == 3

(***************************************************************************)
(* Constants of the program.                                               *)
(***************************************************************************)
\* __init__.py:38
MAX_CONTINUOUS_ERROR_TIME == 60 * 60

\* const.py:19 (DOMAIN is a reserved word of TLA+)
DOMAIN_NAME == "meteoswiss"
\* const.py:21-24
CONF_FORECAST_NAME == "forecast_name"
CONF_POSTCODE == "postcode"
CONF_REAL_TIME_NAME == "real_time_name"
CONF_STATION == "station"
\* Imported by __init__.py:27-29 from const.py, whose copy under src/ does
\* not define them: two further, distinct configuration keys.
CONF_PRECIPITATION_STATION == "precipitation_station"
CONF_REAL_TIME_PRECIPITATION_NAME == "real_time_precipitation_name"

(***************************************************************************)
(* Python values.                                                          *)
(***************************************************************************)
\* None where a str is expected (str | None).
None == "<None>"
\* Values of first_error: None, a bool (False is 0 in arithmetic) or a float.
PyNone == [t |-> "None", v |-> 0]
PyFalse == [t |-> "bool", v |-> 0]
PyFloat(x) == [t |-> "float", v |-> x]
PyTrue == [t |-> "bool", v |-> 1]
PyInt(n) == [t |-> "int", v |-> n]
PyStr(s) == [t |-> "str", v |-> s]
\* A list where a scalar is expected: unhashable.
PyList == [t |-> "list", v |-> 0]
PyBool(b) == IF b THEN PyTrue ELSE PyFalse
\* bool(s) of a str | None
Truthy(s) == s # None /\ s # ""
\* bool(d) of a dict: an empty dict is falsy, any other dict truthy
DictTruthy(d) == DOMAIN d # {}
\* d[k] = v on a dict
DictSet(d, k, v) == [x \in DOMAIN d \cup {k} |-> IF x = k THEN v ELSE d[x]]

(***************************************************************************)
(* The environment: the clock and the upstream client.                     *)
(***************************************************************************)
\* time.time(): seconds since the epoch at the start, and the unit by which
\* the model lets it advance between two steps (half the threshold, so that
\* elapsed times below, at and above the threshold all occur).
StartTime == 17 * 100000000
TickSeconds == MAX_CONTINUOUS_ERROR_TIME \div 2
EndTime == StartTime + MaxTicks * TickSeconds

\* Station identifiers the entry may be configured with.
WeatherStationId == "ABC"
PrecipitationStationId == "XYZ"

\* A station's record: parameter code -> raw value; the empty record is {}.
EmptyRecord == [k \in {} |-> ""]
RecordA == [k \in {"tre200s0"} |-> PyStr("12.3")]
Records == {EmptyRecord, RecordA}

\* A forecast: forecast["currentWeather"]["icon"] is the icon code,
\* forecast["regionForecast"] the days and forecast["regionHourlyForecast"]
\* the hours.
ForecastWith(symbolId, days, hours) ==
    [currentWeather |-> [icon |-> symbolId],
     regionForecast |-> days,
     regionHourlyForecast |-> hours]
Forecast(symbolId) == ForecastWith(symbolId, <<>>, <<>>)
Forecasts == {Forecast(PyInt(1)), Forecast(PyInt(101))}

\* The stations the client was constructed for (__init__.py:198-208).
ClientStations(c) ==
    {s \in {c.weather_station, c.precipitation_station} : Truthy(s)}

\* data["condition"]: the rows of the stations that delivered something.
ConditionRows(cbs) ==
    LET rec(s) == IF s \in DOMAIN cbs /\ DOMAIN cbs[s] # {} THEN <<cbs[s]>> ELSE <<>>
    IN rec(WeatherStationId) \o rec(PrecipitationStationId)

\* What client.get_typed_data() may return: a forecast and, for each station
\* of the client, a record, an empty record or nothing at all.
ClientResult(forecast, cbs) ==
    [k \in {"forecast", "condition", "condition_by_station"} |->
        CASE k = "forecast" -> forecast
          [] k = "condition" -> ConditionRows(cbs)
          [] OTHER -> cbs]

ClientResults(c) ==
    {ClientResult(f, cbs) :
        f \in Forecasts,
        cbs \in UNION {[S -> Records] : S \in SUBSET ClientStations(c)}}

\* The ways the fetch can fail: the 15 s timeout, a transport error, any
\* other exception of the client.
FetchFailures == {"timeout", "transport", "exception"}

(***************************************************************************)
(* State.                                                                  *)
(***************************************************************************)
VARIABLES
    conf,           \* the coordinator's configuration (set once in __init__)
    first_error,    \* self.first_error
    error_raised,   \* self.error_raised
    issues,         \* the issue registry: ids of the issues that exist
    data,           \* coordinator.data: the published snapshot
    now,            \* time.time()
    pc,             \* "idle", "fetching", "setup" or "notify"
    fetches,        \* calls of client.get_typed_data in the current refresh
    pending,        \* listeners still to be called for the last refresh
    lastResult,     \* outcome of the last _async_update_data
    calls,          \* issue-registry calls made by the last refresh
    runStart,       \* history: clock of the first refresh of the no-data run
    refreshTime,    \* history: clock of the latest successful refresh
    prevData,       \* history: the snapshot published before `data`
    weather,        \* the MeteoSwissWeather entity, <<>> before it is set up
    sensors,        \* the MeteoSwissSensor entities, by station type
    call,           \* the last property read or function call, with its result
    flow,           \* the MeteoSwissFlowHandler instance of a config flow
    hass            \* hass.data[DOMAIN] and the config entry being set up

\* The coordinator, its environment and its readers.
coordVars == <<conf, first_error, error_raised, issues, data, now, pc, fetches,
               pending, lastResult, calls, runStart, refreshTime, prevData,
               weather, sensors>>

vars == <<coordVars, call, flow, hass>>

\* No call has been made; no config flow has been started; the setup and
\* the unload of the entry are not followed.
NoCall == [op |-> "none"]
NoFlow == [step |-> "none"]
NoHass == [state |-> "none"]

Names == {CONF_REAL_TIME_NAME, CONF_REAL_TIME_PRECIPITATION_NAME}
StationTypes == {"WEATHER", "PRECIPITATION"}
NoSnapshot == <<>>
NoEntity == <<>>

\* The (station, name) pairs _async_update_data loops over.
Sources(c) ==
    << [station |-> c.weather_station, name |-> CONF_REAL_TIME_NAME],
       [station |-> c.precipitation_station,
        name |-> CONF_REAL_TIME_PRECIPITATION_NAME] >>

StationOf(c, name) ==
    IF name = CONF_REAL_TIME_NAME THEN c.weather_station
    ELSE c.precipitation_station

\* f"{station}_{name}_provides_no_data_{DOMAIN}"
IssueId(station, name) == <<station, name, "provides_no_data", DOMAIN_NAME>>

\* The configurations an entry can give the coordinator: each station is
\* optional, and comes with its display name.
Configs ==
    {[post_code |-> "8000",
      forecast_name |-> "Zurich",
      weather_station |-> ws,
      real_time_weather_station_name |->
          IF ws = None THEN None ELSE "Zurich Fluntern",
      precipitation_station |-> ps,
      real_time_precipitation_station_name |->
          IF ps = None THEN None ELSE "Zurich Kloten"] :
        ws \in {None, WeatherStationId}, ps \in {None, PrecipitationStationId}}

\* The state __init__ leaves.
InitCoordinator ==
    /\ conf \in Configs
    /\ first_error = [n \in Names |-> PyFalse]
    /\ error_raised = [n \in Names |-> FALSE]
    /\ issues = {}
    /\ data = NoSnapshot
    /\ now = StartTime
    /\ pc = "idle"
    /\ fetches = 0
    /\ pending = {}
    /\ lastResult = [fetch |-> "none", status |-> "none",
                     raw |-> NoSnapshot, value |-> NoSnapshot]
    /\ calls = {}
    /\ runStart = [n \in Names |-> PyNone]
    /\ refreshTime = PyNone
    /\ prevData = NoSnapshot
    /\ weather = NoEntity
    /\ sensors = [st \in StationTypes |-> NoEntity]

Init ==
    /\ InitCoordinator
    /\ call = NoCall
    /\ flow = NoFlow
    /\ hass = NoHass

(***************************************************************************)
(* _async_update_data, after the fetch: the per-source error tracking.     *)
(* st is the part of the state the loop over the sources works on:         *)
(* fe = first_error, er = error_raised, issues, calls, and err, set when   *)
(* a statement raised (the rest of the refresh is then not executed).      *)
(***************************************************************************)
\* not data["condition_by_station"].get(station)
NoData(raw, station) ==
    LET cbs == raw["condition_by_station"]
    IN station \notin DOMAIN cbs \/ DOMAIN cbs[station] = {}

\* Variant of RecordFirstError that never records the start of the failure.
RecordFirstError_Never(fe, t) == fe

\* if self.first_error[name] is None: self.first_error[name] = time.time()
RecordFirstError(fe, t) == IF fe = PyNone THEN PyFloat(t) ELSE fe

\* time.time() - self.first_error[name]: a float minus a float or a bool;
\* a float minus None raises TypeError.
CanSubtract(fe) == fe.t # "None"
LastError(t, fe) == t - fe.v

\* Variant of ShouldRaise that tests the flag of the source itself.
ShouldRaise_PerSource(er, name, last_error) ==
    ~er[name] /\ last_error > MAX_CONTINUOUS_ERROR_TIME

\* Variant of ShouldRaise that tests no flag at all.
ShouldRaise_IgnoreFlag(er, name, last_error) ==
    last_error > MAX_CONTINUOUS_ERROR_TIME

\* Variant of ShouldRaise that raises only while no source is raised.
ShouldRaise_NoneRaised(er, name, last_error) ==
    (\A k \in DOMAIN er : ~er[k]) /\ last_error > MAX_CONTINUOUS_ERROR_TIME

\* if not self.error_raised and last_error > m: the test is of the dict
\* self.error_raised itself, not of its entry for `name`.
ShouldRaise(er, name, last_error) ==
    ~DictTruthy(er) /\ last_error > MAX_CONTINUOUS_ERROR_TIME

\* ir.async_create_issue(...); self.error_raised[name] = True
RaiseIssue(st, station, name) ==
    [st EXCEPT !.issues = @ \cup {IssueId(station, name)},
               !.calls = @ \cup {<<"create", name>>},
               !.er[name] = TRUE]

\* The branch of a source without data (lines 239-265).
NoDataBranch(st, station, name, t) ==
    LET fe1 == RecordFirstError(st.fe[name], t)
        st1 == [st EXCEPT !.fe[name] = fe1]
    IN IF ~CanSubtract(fe1) THEN [st1 EXCEPT !.err = TRUE]
       ELSE IF ShouldRaise(st1.er, name, LastError(t, fe1))
            THEN RaiseIssue(st1, station, name)
            ELSE st1

\* if self.error_raised[name]: ir.async_delete_issue(...)
RetractIssue(st, station, name) ==
    IF st.er[name]
    THEN [st EXCEPT !.issues = @ \ {IssueId(station, name)},
                    !.calls = @ \cup {<<"delete", name>>}]
    ELSE st

\* Variant of ClearError that keeps the start of the failure.
ClearError_KeepTimestamp(st, name) == [st EXCEPT !.er[name] = FALSE]

\* self.first_error[name] = None; self.error_raised[name] = False
ClearError(st, name) == [st EXCEPT !.fe[name] = PyNone, !.er[name] = FALSE]

\* The branch of a source with data (lines 266-274).
DataBranch(st, station, name) == ClearError(RetractIssue(st, station, name), name)

\* One iteration of the loop over the sources (lines 230-274).
SourceStep(st, src, raw, t) ==
    IF st.err \/ ~Truthy(src.station) THEN st
    ELSE IF NoData(raw, src.station)
         THEN NoDataBranch(st, src.station, src.name, t)
         ELSE DataBranch(st, src.station, src.name)

\* The whole loop: the weather source, then the precipitation source.
TrackSources(st, c, raw, t) ==
    SourceStep(SourceStep(st, Sources(c)[1], raw, t), Sources(c)[2], raw, t)

\* Variant of MergeMetadata that writes the weather station's name under
\* both name keys.
MergeMetadata_SwapNames(raw, c) ==
    LET d1 == DictSet(raw, CONF_POSTCODE, c.post_code)
        d2 == DictSet(d1, CONF_FORECAST_NAME, c.forecast_name)
        d3 == DictSet(d2, CONF_STATION, c.weather_station)
        d4 == DictSet(d3, CONF_REAL_TIME_NAME, c.real_time_weather_station_name)
        d5 == DictSet(d4, CONF_PRECIPITATION_STATION, c.precipitation_station)
    IN DictSet(d5, CONF_REAL_TIME_PRECIPITATION_NAME,
               c.real_time_weather_station_name)

\* Lines 276-285: the metadata written into the fetched dict.
MergeMetadata(raw, c) ==
    LET d1 == DictSet(raw, CONF_POSTCODE, c.post_code)
        d2 == DictSet(d1, CONF_FORECAST_NAME, c.forecast_name)
        d3 == DictSet(d2, CONF_STATION, c.weather_station)
        d4 == DictSet(d3, CONF_REAL_TIME_NAME, c.real_time_weather_station_name)
        d5 == DictSet(d4, CONF_PRECIPITATION_STATION, c.precipitation_station)
    IN DictSet(d5, CONF_REAL_TIME_PRECIPITATION_NAME,
               c.real_time_precipitation_station_name)

(***************************************************************************)
(* The entities reading the coordinator.                                   *)
(***************************************************************************)
\* The listeners the coordinator calls after a refresh.
Listeners ==
    (IF weather = NoEntity THEN {} ELSE {"weather"})
    \cup {st \in StationTypes : sensors[st] # NoEntity}

\* History of the no-data runs: a run starts at the first successful refresh
\* without data for the source and ends at a successful refresh with data.
RunStartAfter(c, raw, t) ==
    [n \in Names |->
        IF ~Truthy(StationOf(c, n)) THEN runStart[n]
        ELSE IF ~NoData(raw, StationOf(c, n)) THEN PyNone
        ELSE IF runStart[n] = PyNone THEN PyFloat(t) ELSE runStart[n]]

(***************************************************************************)
(* Actions.                                                                *)
(***************************************************************************)
\* The clock advances.
Tick ==
    /\ pc = "idle"
    /\ now + TickSeconds <= EndTime
    /\ now' = now + TickSeconds
    /\ UNCHANGED <<conf, first_error, error_raised, issues, data, pc, fetches,
                   pending, lastResult, calls, runStart, refreshTime, prevData,
                   weather, sensors>>

\* The timer (or the first refresh of the setup) starts _async_update_data:
\* client.get_typed_data is handed to the executor, under timeout(15).
StartRefresh ==
    /\ pc = "idle"
    /\ pc' = "fetching"
    /\ fetches' = 1
    /\ calls' = {}
    /\ UNCHANGED <<conf, first_error, error_raised, issues, data, now, pending,
                   lastResult, runStart, refreshTime, prevData, weather, sensors>>

\* Variant of FetchFailed that swallows the exception and publishes an empty
\* payload instead of failing.
FetchFailed_PublishPartial(kind) ==
    /\ pc = "fetching"
    /\ lastResult' = [fetch |-> "failed", status |-> "UpdateFailed",
                      raw |-> NoSnapshot, value |-> NoSnapshot]
    /\ data' = MergeMetadata(ClientResult(Forecast(PyInt(1)), <<>>), conf)
    /\ pending' = Listeners
    /\ pc' = IF Listeners = {} THEN "idle" ELSE "notify"
    /\ UNCHANGED <<conf, first_error, error_raised, issues, now, fetches,
                   calls, runStart, refreshTime, prevData, weather, sensors>>

\* Variant of FetchFailed that forgets the start of every failure.
FetchFailed_ForgetsErrors(kind) ==
    /\ pc = "fetching"
    /\ lastResult' = [fetch |-> "failed", status |-> "UpdateFailed",
                      raw |-> NoSnapshot, value |-> NoSnapshot]
    /\ first_error' = [n \in Names |-> PyNone]
    /\ pending' = Listeners
    /\ pc' = IF Listeners = {} THEN "idle" ELSE "notify"
    /\ UNCHANGED <<conf, error_raised, issues, data, now, fetches,
                   calls, runStart, refreshTime, prevData, weather, sensors>>

\* The fetch raised (lines 225-227): UpdateFailed, nothing is returned.  The
\* base class keeps coordinator.data; it calls the listeners, or, in the
\* first refresh of the setup, gives the setup up (it is tried again later,
\* with a coordinator in the state __init__ leaves).
FetchFailed(kind) ==
    /\ pc = "fetching"
    /\ lastResult' = [fetch |-> "failed", status |-> "UpdateFailed",
                      raw |-> NoSnapshot, value |-> NoSnapshot]
    /\ pending' = Listeners
    /\ pc' = IF Listeners = {} THEN "idle" ELSE "notify"
    /\ UNCHANGED <<conf, first_error, error_raised, issues, data, now, fetches,
                   calls, runStart, refreshTime, prevData, weather, sensors>>

\* The fetch returned `raw` (lines 229-285): the sources are tracked, the
\* metadata merged, and the base class publishes what was returned; the
\* first refresh is followed by the setup of the platforms, a later one by
\* the calls of the listeners.  A statement that raises ends the refresh
\* where it stands.
FetchSucceeded(raw) ==
    /\ pc = "fetching"
    /\ LET st0 == [fe |-> first_error, er |-> error_raised, issues |-> issues,
                   calls |-> calls, err |-> FALSE]
           st == TrackSources(st0, conf, raw, now)
           newdata == MergeMetadata(raw, conf)
       IN /\ first_error' = st.fe
          /\ error_raised' = st.er
          /\ issues' = st.issues
          /\ calls' = st.calls
          /\ runStart' = RunStartAfter(conf, raw, now)
          /\ refreshTime' = PyFloat(now)
          /\ IF st.err
             THEN /\ lastResult' = [fetch |-> "ok", status |-> "TypeError",
                                    raw |-> raw, value |-> NoSnapshot]
                  /\ pc' = IF Listeners = {} THEN "idle" ELSE "notify"
                  /\ UNCHANGED <<data, prevData>>
             ELSE /\ lastResult' = [fetch |-> "ok", status |-> "ok",
                                    raw |-> raw, value |-> newdata]
                  /\ data' = newdata
                  /\ prevData' = IF Listeners = {} THEN newdata ELSE data
                  /\ pc' = IF Listeners = {} THEN "setup" ELSE "notify"
    /\ pending' = Listeners
    /\ UNCHANGED <<conf, now, fetches, weather, sensors>>

\* MeteoSwissWeather.__set_data
SetData(w, d) ==
    [w EXCEPT !.displayName = d[CONF_FORECAST_NAME],
              !.forecastData = d["forecast"],
              !.condition_for_all_stations = d["condition"]]

\* MeteoSwissWeather.__init__
NewWeather(d) ==
    SetData([attr_post_code |-> d[CONF_POSTCODE],
             attr_station |-> d[CONF_STATION],
             attr_weather_station_name |-> d[CONF_REAL_TIME_NAME],
             attr_precipitation_station |-> d[CONF_PRECIPITATION_STATION],
             attr_precipitation_station_name |->
                 d[CONF_REAL_TIME_PRECIPITATION_NAME],
             displayName |-> None,
             forecastData |-> None,
             condition_for_all_stations |-> <<>>], d)

\* Variant of WeatherUpdate that refreshes the forecast only.
WeatherUpdate_ForecastOnly(w, d) == [w EXCEPT !.forecastData = d["forecast"]]

\* MeteoSwissWeather._handle_coordinator_update
WeatherUpdate(w, d) == SetData(w, d)

\* MeteoSwissSensor.__init__
NewSensor(d, st) ==
    [station_type |-> st,
     data |-> d,
     attr_station |-> d[IF st = "WEATHER" THEN CONF_STATION
                        ELSE CONF_PRECIPITATION_STATION],
     attr_post_code |-> d[CONF_POSTCODE]]

\* MeteoSwissSensor._handle_coordinator_update
SensorUpdate(s, d) == [s EXCEPT !.data = d]

\* sensor.async_setup_entry: sensors only for the configured stations.
HasSensors(c, st) ==
    Truthy(IF st = "WEATHER" THEN c.weather_station ELSE c.precipitation_station)

\* async_setup_entry, after the first refresh: the sensor and the weather
\* platform are set up, and create their entities from coordinator.data.
ForwardEntrySetups ==
    /\ pc = "setup"
    /\ weather' = NewWeather(data)
    /\ sensors' = [st \in StationTypes |->
                      IF HasSensors(conf, st) THEN NewSensor(data, st)
                      ELSE NoEntity]
    /\ pc' = "idle"
    /\ UNCHANGED <<conf, first_error, error_raised, issues, data, now, fetches,
                   pending, lastResult, calls, runStart, refreshTime,
                   prevData>>

\* The coordinator calls one listener: _handle_coordinator_update.
Notify(l) ==
    /\ pc = "notify"
    /\ l \in pending
    /\ IF l = "weather"
       THEN weather' = WeatherUpdate(weather, data) /\ UNCHANGED sensors
       ELSE sensors' = [sensors EXCEPT ![l] = SensorUpdate(@, data)]
            /\ UNCHANGED weather
    /\ pending' = pending \ {l}
    /\ pc' = IF pending' = {} THEN "idle" ELSE "notify"
    /\ prevData' = IF pending' = {} THEN data ELSE prevData
    /\ UNCHANGED <<conf, first_error, error_raised, issues, data, now, fetches,
                   lastResult, calls, runStart, refreshTime>>

(***************************************************************************)
(* The outcome of a call, and the accesses and conversions of the readers.  *)
(***************************************************************************)
\* A call returns a value or raises an exception.
Return(v) == [exc |-> "", value |-> v]
Raise(e) == [exc |-> e, value |-> PyNone]

\* row[name]
GetItem(row, name) ==
    IF name \in DOMAIN row THEN Return(row[name]) ELSE Raise("KeyError")

\* The strings of the model float() can parse, with the float they give in
\* tenths, the unit of PyFloat in a record's value.
FloatLiterals == ("7.0" :> 70 @@ "12.3" :> 123)

\* float(value): a float is returned as it is, a string is parsed, None is
\* a TypeError.
ToFloat(value) ==
    CASE value.t = "float" -> Return(value)
      [] value.t = "str" /\ value.v \in DOMAIN FloatLiterals ->
            Return(PyFloat(FloatLiterals[value.v]))
      [] value.t = "str" -> Raise("ValueError")
      [] OTHER -> Raise("TypeError")

(***************************************************************************)
(* The condition code table and MeteoSwissWeather.condition.               *)
(***************************************************************************)

\* class Condition(StrEnum): member name -> value. str() of a member is its
\* value.
Condition ==
    [partly_cloudy |-> "default",
     clear_night |-> "clear-night",
     cloudy |-> "cloudy",
     exceptional |-> "exceptional",
     fog |-> "fog",
     hail |-> "hail",
     lightning |-> "lightning",
     lightning_rainy |-> "lightning-rainy",
     pouring |-> "pouring",
     rainy |-> "rainy",
     snowy |-> "snowy",
     snowy_rainy |-> "snowy-rainy",
     sunny |-> "sunny",
     windy |-> "windy",
     windy_variant |-> "windy-variant"]

\* CODE_TO_CONDITION_MAP: icon code -> (Condition member, description),
\* first the codes of the day, then the codes of the night.
DayCodes ==
    (
     1 :> <<"sunny", "sunny">> @@
     2 :> <<"partly_cloudy", "mostly sunny, some clouds">> @@
     3 :> <<"partly_cloudy", "partly sunny, thick passing clouds">> @@
     4 :> <<"partly_cloudy", "overcast">> @@
     5 :> <<"cloudy", "very cloudy">> @@
     6 :> <<"rainy", "sunny intervals,  isolated showers">> @@
     7 :> <<"snowy_rainy", "sunny intervals, isolated sleet">> @@
     8 :> <<"snowy", "sunny intervals, snow showers">> @@
     9 :> <<"rainy", "overcast, some rain showers">> @@
     10 :> <<"snowy_rainy", "overcast, some sleet">> @@
     11 :> <<"snowy", "overcast, some snow showers">> @@
     12 :> <<"lightning", "sunny intervals, chance of thunderstorms">> @@
     13 :> <<"lightning_rainy", "sunny intervals, possible thunderstorms">> @@
     14 :> <<"rainy", "very cloudy, light rain">> @@
     15 :> <<"snowy_rainy", "very cloudy, light sleet">> @@
     16 :> <<"snowy", "very cloudy, light snow showers">> @@
     17 :> <<"rainy", "very cloudy, intermittent rain">> @@
     18 :> <<"snowy_rainy", "very cloudy, intermittent sleet">> @@
     19 :> <<"snowy", "very cloudy, intermittent snow">> @@
     20 :> <<"pouring", "very overcast with rain">> @@
     21 :> <<"snowy_rainy", "very overcast with frequent sleet">> @@
     22 :> <<"snowy", "very overcast with heavy snow">> @@
     23 :> <<"lightning_rainy", "very overcast, slight chance of storms">> @@
     24 :> <<"lightning_rainy", "very overcast with storms">> @@
     25 :> <<"lightning_rainy", "very cloudy, very stormy">> @@
     26 :> <<"sunny", "high clouds">> @@
     27 :> <<"fog", "stratus">> @@
     28 :> <<"fog", "fog">> @@
     29 :> <<"rainy", "sunny intervals, scattered showers">> @@
     30 :> <<"snowy", "sunny intervals, scattered snow showers">> @@
     31 :> <<"snowy_rainy", "sunny intervals, scattered sleet">> @@
     32 :> <<"lightning_rainy", "sunny intervals, some showers">> @@
     33 :> <<"rainy", "short sunny intervals, frequent rain">> @@
     34 :> <<"snowy", "short sunny intervals, frequent snowfalls">> @@
     35 :> <<"cloudy", "overcast and dry">> @@
     36 :> <<"lightning", "partly sunny, slightly stormy">> @@
     37 :> <<"snowy", "partly sunny, stormy snow showers">> @@
     38 :> <<"lightning_rainy", "overcast, thundery showers">> @@
     39 :> <<"snowy_rainy", "overcast, thundery snow showers">> @@
     40 :> <<"lightning", "very cloudly, slightly stormy">> @@
     41 :> <<"lightning", "overcast, slightly stormy">> @@
     42 :> <<"snowy", "very cloudly, thundery snow showers">>
    )

NightCodes ==
    (
     101 :> <<"clear_night", "clear">> @@
     102 :> <<"partly_cloudy", "slightly overcast">> @@
     103 :> <<"partly_cloudy", "heavy cloud formations">> @@
     104 :> <<"partly_cloudy", "overcast">> @@
     105 :> <<"cloudy", "very cloudy">> @@
     106 :> <<"rainy", "overcast, scattered showers">> @@
     107 :> <<"snowy_rainy", "overcast, scattered rain and snow showers">> @@
     108 :> <<"snowy", "overcast, snow showers">> @@
     109 :> <<"rainy", "overcast, some showers">> @@
     110 :> <<"snowy_rainy", "overcast, some rain and snow showers">> @@
     111 :> <<"snowy", "overcast, some snow showers">> @@
     112 :> <<"lightning", "slightly stormy">> @@
     113 :> <<"lightning_rainy", "storms">> @@
     114 :> <<"rainy", "very cloudy, light rain">> @@
     115 :> <<"snowy_rainy", "very cloudy, light rain and snow  showers">> @@
     116 :> <<"snowy", "very cloudy, light snowfall">> @@
     117 :> <<"rainy", "very cloudy, intermittent rain">> @@
     118 :> <<"snowy_rainy", "very cloudy, intermittant mixed rain and snowfall">> @@
     119 :> <<"snowy", "very cloudy, intermittent snowfall">> @@
     120 :> <<"pouring", "very cloudy,  constant rain">> @@
     121 :> <<"snowy_rainy", "very cloudy, frequent rain and snowfall">> @@
     122 :> <<"snowy", "very cloudy, heavy snowfall">> @@
     123 :> <<"lightning_rainy", "very cloudy, slightly stormy">> @@
     124 :> <<"lightning_rainy", "very cloudy, stormy">> @@
     125 :> <<"lightning_rainy", "very cloudy, storms">> @@
     126 :> <<"cloudy", "high cloud">> @@
     127 :> <<"fog", "stratus">> @@
     128 :> <<"fog", "fog">> @@
     129 :> <<"rainy", "slightly overcast, scattered showers">> @@
     130 :> <<"snowy", "slightly overcast, scattered snowfall">> @@
     131 :> <<"snowy_rainy", "slightly overcast, rain and snow showers">> @@
     132 :> <<"lightning_rainy", "slightly overcast, some showers">> @@
     133 :> <<"rainy", "overcast, frequent snow showers">> @@
     134 :> <<"snowy", "overcast, frequent snow showers">> @@
     135 :> <<"cloudy", "overcast and dry">> @@
     136 :> <<"lightning", "slightly overcast, slightly stormy">> @@
     137 :> <<"snowy", "slightly overcast, stormy snow showers">> @@
     138 :> <<"lightning_rainy", "overcast, thundery showers">> @@
     139 :> <<"snowy_rainy", "overcast, thundery snow showers">> @@
     140 :> <<"lightning", "very cloudly, slightly stormy">> @@
     141 :> <<"lightning", "overcast, slightly stormy">> @@
     142 :> <<"snowy", "very cloudly, thundery snow showers">>
    )

\* Variant of the table that gives clear_night to every code of the night.
CODE_TO_CONDITION_MAP_ClearNights ==
    DayCodes @@ [c \in DOMAIN NightCodes |-> <<"clear_night", NightCodes[c][2]>>]

CODE_TO_CONDITION_MAP == DayCodes @@ NightCodes

\* homeassistant.const.STATE_UNAVAILABLE
STATE_UNAVAILABLE == "unavailable"

(***************************************************************************)
(* weather.py: MeteoSwissWeather.condition and                             *)
(* condition_name_to_first_value.                                          *)
(***************************************************************************)
\* CODE_TO_CONDITION_MAP.get(symbolId, ("", None)): an int is looked up,
\* None and a string are no keys, a list cannot be hashed.
TableGet(symbolId) ==
    IF symbolId.t = "list" THEN Raise("TypeError")
    ELSE IF symbolId.t = "int" /\ symbolId.v \in DOMAIN CODE_TO_CONDITION_MAP
    THEN Return(CODE_TO_CONDITION_MAP[symbolId.v])
    ELSE Return(<<"", None>>)

\* str(x), of a Condition member or of a str.
Str(x) == IF x \in DOMAIN Condition THEN Condition[x] ELSE x

\* s or None
OrNone(s) == IF s = "" THEN None ELSE s

\* Variant of condition that reads the description, the second component of
\* the table's entry.
condition_Description(w) ==
    LET got == TableGet(w.forecastData.currentWeather.icon)
    IN IF got.exc = "TypeError" THEN Return(PyStr(STATE_UNAVAILABLE))
       ELSE LET cond == OrNone(Str(got.value[2]))
            IN IF cond = None THEN Return(PyStr(STATE_UNAVAILABLE))
               ELSE Return(PyStr(cond))

\* Variant of condition without the "or None" and without the handler of
\* TypeError.
condition_Unguarded(w) ==
    LET got == TableGet(w.forecastData.currentWeather.icon)
    IN IF got.exc = "TypeError" THEN got
       ELSE Return(PyStr(Str(got.value[1])))

\* MeteoSwissWeather.condition
condition(w) ==
    LET symbolId == w.forecastData.currentWeather.icon
        got == TableGet(symbolId)
    IN IF got.exc = "TypeError" THEN Return(PyStr(STATE_UNAVAILABLE))
       ELSE LET cond == OrNone(Str(got.value[1]))
            IN IF cond = None THEN Return(PyStr(STATE_UNAVAILABLE))
               ELSE Return(PyStr(cond))

\* Variant of the scan that gives up at the first value float() rejects.
RECURSIVE ScanRows_StopAtBadValue(_, _, _)
ScanRows_StopAtBadValue(rows, name, n) ==
    IF n > Len(rows) THEN Return(PyNone)
    ELSE LET got == GetItem(rows[n], name)
         IN IF got.exc # "" \/ got.value = PyNone \/ got.value = PyStr("-")
            THEN ScanRows_StopAtBadValue(rows, name, n + 1)
            ELSE LET f == ToFloat(got.value)
                 IN IF f.exc # "" THEN Return(PyNone) ELSE f

\* Variant of the scan without the two exception handlers.
RECURSIVE ScanRows_NoHandlers(_, _, _)
ScanRows_NoHandlers(rows, name, n) ==
    IF n > Len(rows) THEN Return(PyNone)
    ELSE LET got == GetItem(rows[n], name)
         IN IF got.exc # "" THEN got
            ELSE IF got.value = PyNone \/ got.value = PyStr("-")
            THEN ScanRows_NoHandlers(rows, name, n + 1)
            ELSE ToFloat(got.value)

\* The loop of condition_name_to_first_value, from row n on: a row without
\* the name, with None or "-", or with a value float() rejects is skipped.
RECURSIVE ScanRows(_, _, _)
ScanRows(rows, name, n) ==
    IF n > Len(rows) THEN Return(PyNone)
    ELSE LET got == GetItem(rows[n], name)
         IN IF got.exc # "" THEN ScanRows(rows, name, n + 1)
            ELSE IF got.value = PyNone \/ got.value = PyStr("-")
            THEN ScanRows(rows, name, n + 1)
            ELSE LET f == ToFloat(got.value)
                 IN IF f.exc # "" THEN ScanRows(rows, name, n + 1) ELSE f

\* condition_name_to_first_value(condition, name). None and the empty list
\* are both <<>> here: "if not condition" treats them alike.
condition_name_to_first_value(rows, name) ==
    IF rows = <<>> THEN Return(PyNone) ELSE ScanRows(rows, name, 1)

(***************************************************************************)
(* weather.py: the forecasts of MeteoSwissWeather.                         *)
(***************************************************************************)
\* The keys _daily_forecast reads of a day, and _hourly_forecast of an hour.
DayKeys == {"dayDate", "temperatureMin", "temperatureMax", "iconDay",
            "precipitation"}
HourKeys == {"time", "temperatureMin", "temperatureMax", "precipitationMax"}

\* The body of the loop of _daily_forecast: the entries built of one day.  A
\* missing key or an icon code that cannot be hashed raises inside the try;
\* the handler logs it and the day yields nothing.
DayOut(forecast) ==
    IF ~(DayKeys \subseteq DOMAIN forecast) THEN <<>>
    ELSE LET got == TableGet(forecast["iconDay"])
         IN IF got.exc # "" THEN <<>>
            ELSE LET cond == OrNone(Str(got.value[1]))
                 IN << [datetime |-> forecast["dayDate"],
                        native_templow |-> forecast["temperatureMin"],
                        native_temperature |-> forecast["temperatureMax"],
                        condition |-> IF cond = None THEN PyNone
                                      ELSE PyStr(cond),
                        native_precipitation |-> forecast["precipitation"]] >>

\* The loop of _daily_forecast over regionForecast, from entry n on.
RECURSIVE DaysFrom(_, _)
DaysFrom(days, n) ==
    IF n > Len(days) THEN <<>>
    ELSE DayOut(days[n]) \o DaysFrom(days, n + 1)

\* MeteoSwissWeather._daily_forecast
_daily_forecast(w) == DaysFrom(w.forecastData.regionForecast, 1)

\* MeteoSwissWeather.async_forecast_daily: _daily_forecast() or []
async_forecast_daily(w) == Return(_daily_forecast(w))

\* forecast["time"].isoformat("T").partition("+")[0] + "Z", of a time in UTC.
IsoZ(time) == [t |-> "isoZ", v |-> time]

\* biggers.index(True): the 0-based index of the first entry later than now.
\* list.index raises ValueError when there is none.
IndexOfLater(hours, t) ==
    LET later == {i \in 1..Len(hours) : hours[i]["time"] > t}
    IN IF later = {} THEN Raise("ValueError")
       ELSE Return((CHOOSE i \in later : \A j \in later : i <= j) - 1)

\* forecast_data[start:] for a start of -1 or more: a negative start counts
\* from the end of the list.
SliceFrom(list, start) ==
    LET from == IF start < 0 THEN
                    (IF Len(list) + start < 0 THEN 0 ELSE Len(list) + start)
                ELSE start
    IN SubSeq(list, from + 1, Len(list))

\* The body of the loop of _hourly_forecast.
HourOut(forecast) ==
    [datetime |-> IsoZ(forecast["time"]),
     native_templow |-> forecast["temperatureMin"],
     native_temperature |-> forecast["temperatureMax"],
     native_precipitation |-> forecast["precipitationMax"]]

\* MeteoSwissWeather._hourly_forecast at the time t.  The handler around
\* index() is for IndexError, so the ValueError leaves the method; an entry
\* without one of the keys raises KeyError, in the comprehension or the loop.
_hourly_forecast(w, t) ==
    LET forecast_data == w.forecastData.regionHourlyForecast
    IN IF \E i \in 1..Len(forecast_data) : "time" \notin DOMAIN forecast_data[i]
       THEN Raise("KeyError")
       ELSE LET idx == IndexOfLater(forecast_data, t)
            IN IF idx.exc # "" THEN idx
               ELSE LET tail == SliceFrom(forecast_data, idx.value - 1)
                    IN IF \E i \in 1..Len(tail) :
                              ~(HourKeys \subseteq DOMAIN tail[i])
                       THEN Raise("KeyError")
                       ELSE Return([i \in 1..Len(tail) |-> HourOut(tail[i])])

\* MeteoSwissWeather.async_forecast_hourly: _hourly_forecast() or []
async_forecast_hourly(w, t) == _hourly_forecast(w, t)

(***************************************************************************)
(* sensor.py: MeteoSwissSensor.native_value and available.                 *)
(***************************************************************************)
\* Variant of native_value that falls back on the record of any station
\* that has the value.
native_value_Fallback(s, dataId) ==
    LET cbs == s.data["condition_by_station"]
        having == {x \in DOMAIN cbs : dataId \in DOMAIN cbs[x]}
    IN IF s.attr_station \in having THEN Return(cbs[s.attr_station][dataId])
       ELSE IF having = {} THEN Return(PyNone)
       ELSE Return(cbs[CHOOSE x \in having : TRUE][dataId])

\* MeteoSwissSensor.native_value: the value of the sensor's parameter in
\* the record of the sensor's station, as the record holds it.
native_value(s, dataId) ==
    LET cbs == s.data["condition_by_station"]
    IN IF s.attr_station \notin DOMAIN cbs \/ ~DictTruthy(cbs[s.attr_station])
       THEN Return(PyNone)
       ELSE LET got == GetItem(cbs[s.attr_station], dataId)
            IN IF got.exc # "" THEN Return(PyNone) ELSE got

\* Variant of available that counts the sentinel "-" as no value.
available_NotSentinel(s, dataId) ==
    LET cbs == s.data["condition_by_station"]
    IN IF s.attr_station \notin DOMAIN cbs \/ ~DictTruthy(cbs[s.attr_station])
       THEN Return(PyFalse)
       ELSE LET got == GetItem(cbs[s.attr_station], dataId)
            IN IF got.exc # "" THEN Return(PyFalse)
               ELSE Return(PyBool(got.value \notin {PyNone, PyStr("-")}))

\* MeteoSwissSensor.available
available(s, dataId) ==
    LET cbs == s.data["condition_by_station"]
    IN IF s.attr_station \notin DOMAIN cbs \/ ~DictTruthy(cbs[s.attr_station])
       THEN Return(PyFalse)
       ELSE LET got == GetItem(cbs[s.attr_station], dataId)
            IN IF got.exc # "" THEN Return(PyFalse)
               ELSE Return(PyBool(got.value # PyNone))

(***************************************************************************)
(* Property reads. Home Assistant reads the properties of an entity when   *)
(* it writes the entity's state; a read changes nothing but `call`.        *)
(***************************************************************************)
Called(op, args, result) == [op |-> op, args |-> args, result |-> result]

\* weather.condition
ReadCondition ==
    /\ weather # NoEntity
    /\ call' = Called("condition", <<>>, condition(weather))
    /\ UNCHANGED <<coordVars, flow, hass>>

\* weather.native_temperature, native_pressure, ...: each is
\* condition_name_to_first_value of its parameter code.
ReadFirstValue(name) ==
    /\ weather # NoEntity
    /\ call' = Called("first_value", <<name>>,
           condition_name_to_first_value(weather.condition_for_all_stations,
                                         name))
    /\ UNCHANGED <<coordVars, flow, hass>>

\* weather.async_forecast_daily
ReadDailyForecast ==
    /\ weather # NoEntity
    /\ call' = Called("forecast_daily", <<>>, async_forecast_daily(weather))
    /\ UNCHANGED <<coordVars, flow, hass>>

\* weather.async_forecast_hourly; datetime.now() is `now`.
ReadHourlyForecast ==
    /\ weather # NoEntity
    /\ call' = Called("forecast_hourly", <<now>>,
                      async_forecast_hourly(weather, now))
    /\ UNCHANGED <<coordVars, flow, hass>>

\* sensor.native_value and sensor.available, read together for one state.
ReadSensor(st, dataId) ==
    /\ sensors[st] # NoEntity
    /\ call' = [op |-> "sensor", args |-> <<st, dataId>>,
                result |-> native_value(sensors[st], dataId),
                available |-> available(sensors[st], dataId)]
    /\ UNCHANGED <<coordVars, flow, hass>>

\* async_unload_entry: the platforms are unloaded and the coordinator is
\* taken out of hass.data; nothing refreshes or reads the entry afterwards.
UnloadEntry ==
    /\ pc = "idle"
    /\ weather # NoEntity
    /\ pc' = "unloaded"
    /\ UNCHANGED <<conf, first_error, error_raised, issues, data, now, fetches,
                   pending, lastResult, calls, runStart, refreshTime, prevData,
                   weather, sensors>>

\* A step of the coordinator or of a reader's update handler: no property
\* read is in progress afterwards, and the config flow is not involved.
Quiet == call' = NoCall /\ UNCHANGED <<flow, hass>>

Next ==
    \/ Tick /\ Quiet
    \/ StartRefresh /\ Quiet
    \/ \E kind \in FetchFailures : FetchFailed(kind) /\ Quiet
    \/ \E raw \in ClientResults(conf) : FetchSucceeded(raw) /\ Quiet
    \/ ForwardEntrySetups /\ Quiet
    \/ \E l \in {"weather"} \cup StationTypes : Notify(l) /\ Quiet
    \/ UnloadEntry /\ Quiet
    \/ pc = "idle" /\ ReadCondition
    \/ pc = "idle" /\ ReadFirstValue("tre200s0")
    \/ \E st \in StationTypes : pc = "idle" /\ ReadSensor(st, "tre200s0")

Spec == Init /\ [][Next]_vars

(***************************************************************************)
(* The readers on richer snapshots: one refresh of an entry with both      *)
(* stations, the setup of the entities, then property reads.               *)
(***************************************************************************)
\* Icon codes 0..MaxIconCode are drawn; rows come in sequences of at most
\* MaxRows.
MaxIconCode == 143
MaxRows == 2

\* The icon codes a forecast may carry.
IconCodes == {PyNone, PyStr("1"), PyList} \cup {PyInt(n) : n \in 0..MaxIconCode}

\* Two of the parameter codes of SENSOR_TYPES, and the values a record may
\* hold for each: strings, numeric or not, the sentinel, None, floats.
ParamCodes == {"tre200s0", "prestas0"}
ParamValues(name) ==
    IF name = "tre200s0"
    THEN {PyStr("7.0"), PyStr("-"), PyStr("abc"), PyNone, PyFloat(123)}
    ELSE {PyStr("abc"), PyFloat(9600)}
RichRecords ==
    UNION {{r \in [S -> UNION {ParamValues(k) : k \in ParamCodes}] :
               \A k \in S : r[k] \in ParamValues(k)} : S \in SUBSET ParamCodes}

\* Region forecasts have at most MaxDays days; the hours of an hourly
\* forecast lie at most MaxHours hours before or after `now`.
MaxDays == 2
MaxHours == 2

\* The i-th day of a region forecast with the icon given, and a day that
\* lacks its precipitation.
Day(i, iconDay) ==
    [k \in DayKeys |->
        CASE k = "dayDate" -> PyInt(i)
          [] k = "temperatureMin" -> PyInt(i)
          [] k = "temperatureMax" -> PyInt(10 + i)
          [] k = "iconDay" -> iconDay
          [] OTHER -> PyInt(0)]
DayWithoutPrecipitation(i) ==
    [k \in DayKeys \ {"precipitation"} |-> Day(i, PyInt(1))[k]]
DaysAt(i) == {Day(i, PyInt(1)), Day(i, PyInt(2)), DayWithoutPrecipitation(i)}
RegionForecasts ==
    UNION {{d \in [1..n -> UNION {DaysAt(i) : i \in 1..n}] :
               \A i \in 1..n : d[i] \in DaysAt(i)} : n \in 0..MaxDays}

\* The hour that lies k hours after StartTime.
Hour(k) ==
    [j \in HourKeys |->
        CASE j = "time" -> StartTime + k * 3600
          [] j = "temperatureMin" -> k
          [] j = "temperatureMax" -> k + 1
          [] OTHER -> 0]

\* The hourly forecasts: the hours of a set of offsets, in ascending order.
RECURSIVE Ascending(_)
Ascending(S) ==
    IF S = {} THEN <<>>
    ELSE LET m == CHOOSE x \in S : \A y \in S : x <= y
         IN <<Hour(m)>> \o Ascending(S \ {m})
HourlyForecasts == {Ascending(S) : S \in SUBSET ((0 - MaxHours)..MaxHours)}

\* What client.get_typed_data() returns, with the rows given.
ClientResultWith(forecast, rows, cbs) ==
    [k \in {"forecast", "condition", "condition_by_station"} |->
        CASE k = "forecast" -> forecast
          [] k = "condition" -> rows
          [] OTHER -> cbs]

\* The results drawn: every icon code, for the current weather and for a
\* day; every region forecast; every hourly forecast; every sequence of
\* rows; every per-station mapping.
ReaderResults ==
    {ClientResultWith(Forecast(c), <<>>, <<>>) : c \in IconCodes}
    \cup {ClientResultWith(ForecastWith(c, <<Day(1, c)>>, <<>>), <<>>, <<>>) :
            c \in IconCodes}
    \cup {ClientResultWith(ForecastWith(PyInt(1), days, <<>>), <<>>, <<>>) :
            days \in RegionForecasts}
    \cup {ClientResultWith(ForecastWith(PyInt(1), <<>>, hours), <<>>, <<>>) :
            hours \in HourlyForecasts}
    \cup {ClientResultWith(Forecast(PyInt(1)), rows, <<>>) :
            rows \in UNION {[1..n -> RichRecords] : n \in 1..MaxRows}}
    \cup {ClientResultWith(Forecast(PyInt(1)), ConditionRows(cbs), cbs) :
            cbs \in UNION {[S -> RichRecords] :
                S \in SUBSET {WeatherStationId, PrecipitationStationId}}}

FullConfig ==
    CHOOSE c \in Configs : /\ c.weather_station = WeatherStationId
                           /\ c.precipitation_station = PrecipitationStationId

InitReaders == Init /\ conf = FullConfig

NextReaders ==
    \/ (data = NoSnapshot /\ StartRefresh) /\ Quiet
    \/ \E raw \in ReaderResults : FetchSucceeded(raw) /\ Quiet
    \/ ForwardEntrySetups /\ Quiet
    \/ ReadCondition
    \/ ReadDailyForecast
    \/ ReadHourlyForecast
    \/ \E name \in ParamCodes : ReadFirstValue(name)
    \/ \E st \in StationTypes, dataId \in ParamCodes : ReadSensor(st, dataId)

SpecReaders == InitReaders /\ [][NextReaders]_vars

(***************************************************************************)
(* config_flow.py: MeteoSwissFlowHandler.  A str the flow parses is a      *)
(* sequence of characters, so that re.match, str.strip and int() are       *)
(* computed from its characters.                                           *)
(***************************************************************************)
CONF_UPDATE_INTERVAL == "update_interval"
CONF_LAT == "latitude"
CONF_LON == "longitude"
NO_STATION == "No real-time weather station"

Digits == {"0", "1", "2", "3", "4", "5", "6", "7", "8", "9"}
Letters == {"A", "B", "C", "D", "W", "X", "Y", "Z", "a"}
\* \d, \w and the characters str.strip() and int() drop.
WordChars == Digits \cup Letters \cup {"_"}
Whitespace == {" ", "\n", "\t"}

\* re.match(r"^\d{4}$", s): four digits, then the end of the string or a
\* newline that ends the string ($ matches before a trailing newline).
MatchFourDigits(s) ==
    /\ Len(s) >= 4
    /\ \A i \in 1..4 : s[i] \in Digits
    /\ Len(s) = 4 \/ (Len(s) = 5 /\ s[5] = "\n")

\* re.match(r"^\w{3}$", s)
MatchThreeWordChars(s) ==
    /\ Len(s) >= 3
    /\ \A i \in 1..3 : s[i] \in WordChars
    /\ Len(s) = 3 \/ (Len(s) = 4 /\ s[4] = "\n")

\* s.strip()
RECURSIVE LStrip(_)
LStrip(s) ==
    IF s # <<>> /\ Head(s) \in Whitespace THEN LStrip(Tail(s)) ELSE s
RECURSIVE RStrip(_)
RStrip(s) ==
    IF s # <<>> /\ s[Len(s)] \in Whitespace
    THEN RStrip(SubSeq(s, 1, Len(s) - 1)) ELSE s
Strip(s) == RStrip(LStrip(s))

\* int(s), of a str of digits with whitespace around it.
DigitValue ==
    ("0" :> 0 @@ "1" :> 1 @@ "2" :> 2 @@ "3" :> 3 @@ "4" :> 4 @@
     "5" :> 5 @@ "6" :> 6 @@ "7" :> 7 @@ "8" :> 8 @@ "9" :> 9)
RECURSIVE DigitsToInt(_)
DigitsToInt(s) ==
    IF s = <<>> THEN 0
    ELSE 10 * DigitsToInt(SubSeq(s, 1, Len(s) - 1)) + DigitValue[s[Len(s)]]
StrToInt(s) == DigitsToInt(Strip(s))

\* The handler after __init__; `two` and `three` are history: the input
\* last submitted to the second and to the third step.
NoInput == <<>>
NoEntry == <<>>
NoErrors == <<>>
NewFlow ==
    [step |-> "init", lat |-> PyNone, lon |-> PyNone, post_code |-> PyNone,
     forecast_name |-> PyNone, update_interval |-> PyNone,
     result |-> "none", errors |-> NoErrors, entry |-> NoEntry,
     two |-> NoInput, three |-> NoInput, imported |-> NoInput]

\* async_show_form(step_id=step, errors=errors)
ShowForm(f, step, errors) ==
    [f EXCEPT !.step = step, !.result = "form", !.errors = errors]

\* The handler raised: the flow manager keeps the step it was at.
HandlerRaised(f, exc) == [f EXCEPT !.result = exc, !.errors = NoErrors]

\* async_create_entry(title=title, data=data)
CreateEntry(f, d) ==
    [f EXCEPT !.step = "done", !.result = "create_entry", !.errors = NoErrors,
              !.entry = d]

\* errors[k] = v when the test holds.
ErrorIf(test, errors, k, v) == IF test THEN DictSet(errors, k, v) ELSE errors

\* The stations the client lists, as _get_all_stations_and_closest_one
\* returns them: selection -> station id. One id of each list has four
\* characters.
WeatherStations ==
    (NO_STATION :> <<>> @@ "Zurich (ABC)" :> <<"A", "B", "C">>
     @@ "Basel (ABCD)" :> <<"A", "B", "C", "D">>)
PrecipitationStations ==
    (NO_STATION :> <<>> @@ "Kloten (XYZ)" :> <<"X", "Y", "Z">>
     @@ "Binningen (WXYZ)" :> <<"W", "X", "Y", "Z">>)

\* async_step_user_three. closest is the weather station
\* client.get_closest_station returned, <<>> when it returned none.
async_step_user_three(f, user_input, closest) ==
    IF user_input = NoInput
    THEN IF closest = <<>>
         THEN HandlerRaised(f, "UnboundLocalError")
         ELSE ShowForm(f, "user_three", NoErrors)
    ELSE
    LET g == [f EXCEPT !.three = user_input]
        ws == WeatherStations[user_input.station]
        ps == PrecipitationStations[user_input.precipitation_station]
        wname == IF ws # <<>> THEN Strip(user_input.real_time_name) ELSE <<>>
        pname == IF ps # <<>>
                 THEN Strip(user_input.real_time_precipitation_name)
                 ELSE <<>>
        e1 == IF ws # <<>>
              THEN ErrorIf(~MatchThreeWordChars(ws),
                       ErrorIf(Len(wname) < 1, NoErrors,
                               CONF_REAL_TIME_NAME, "empty_name"),
                       CONF_STATION, "invalid_station_name")
              ELSE NoErrors
        \* line 348 matches weather_station, which is None when no weather
        \* station was selected
        e2 == IF ps # <<>>
              THEN ErrorIf(~MatchThreeWordChars(ws),
                       ErrorIf(Len(pname) < 1, e1,
                               CONF_REAL_TIME_PRECIPITATION_NAME, "empty_name"),
                       CONF_PRECIPITATION_STATION, "invalid_station_name")
              ELSE e1
        d0 == (CONF_POSTCODE :> f.post_code
               @@ CONF_FORECAST_NAME :> f.forecast_name
               @@ CONF_UPDATE_INTERVAL :> f.update_interval)
        d1 == IF ws # <<>> /\ wname # <<>>
              THEN DictSet(DictSet(d0, CONF_STATION, PyStr(ws)),
                           CONF_REAL_TIME_NAME, PyStr(wname))
              ELSE d0
        d2 == IF ps # <<>> /\ pname # <<>>
              THEN DictSet(DictSet(d1, CONF_PRECIPITATION_STATION, PyStr(ps)),
                           CONF_REAL_TIME_PRECIPITATION_NAME, PyStr(pname))
              ELSE d1
    IN IF ps # <<>> /\ ws = <<>> THEN HandlerRaised(g, "TypeError")
       ELSE IF DictTruthy(e2) THEN ShowForm(g, "user_three", e2)
       ELSE CreateEntry(g, d2)

\* homeassistant.const.CONF_NAME, the default of the update interval, and
\* the key of the precipitation station's name in the YAML configuration.
CONF_NAME == "name"
DEFAULT_UPDATE_INTERVAL == 5
CONF_PRECIPITATION_NAME == "precipitation_name"

\* async_step_import(import_config), the step of a flow that async_setup
\* starts for a YAML configuration. The title of the entry is read from
\* data[CONF_NAME].
async_step_import(f, import_config) ==
    LET g == [f EXCEPT !.step = "import", !.imported = import_config]
        has(k) == k \in DOMAIN import_config /\ import_config[k].v # <<>>
        d0 == (CONF_POSTCODE :> import_config[CONF_POSTCODE]
               @@ CONF_UPDATE_INTERVAL :>
                    (IF CONF_UPDATE_INTERVAL \in DOMAIN import_config
                     THEN import_config[CONF_UPDATE_INTERVAL]
                     ELSE PyInt(DEFAULT_UPDATE_INTERVAL))
               @@ CONF_FORECAST_NAME :> import_config[CONF_NAME])
        d1 == IF has(CONF_STATION)
              THEN DictSet(DictSet(d0, CONF_STATION,
                                   import_config[CONF_STATION]),
                           CONF_REAL_TIME_NAME, import_config[CONF_NAME])
              ELSE d0
        d2 == IF has(CONF_PRECIPITATION_STATION)
              THEN DictSet(DictSet(d1, CONF_PRECIPITATION_STATION,
                                   import_config[CONF_PRECIPITATION_STATION]),
                           CONF_REAL_TIME_PRECIPITATION_NAME,
                           import_config[CONF_PRECIPITATION_NAME])
              ELSE d1
    IN IF ~({CONF_POSTCODE, CONF_NAME} \subseteq DOMAIN import_config)
       THEN HandlerRaised(g, "KeyError")
       ELSE IF /\ has(CONF_PRECIPITATION_STATION)
               /\ CONF_PRECIPITATION_NAME \notin DOMAIN import_config
       THEN HandlerRaised(g, "KeyError")
       ELSE IF CONF_NAME \notin DOMAIN d2 THEN HandlerRaised(g, "KeyError")
       ELSE CreateEntry(g, d2)

\* async_step_user_two. geodata tells whether client.getGeoData answered.
async_step_user_two(f, user_input, geodata, closest) ==
    IF user_input = NoInput
    THEN ShowForm(f, "user_two",
             IF geodata THEN NoErrors
             ELSE (CONF_POSTCODE :> "cannot_query_postcode"
                   @@ CONF_FORECAST_NAME :> "cannot_query_address"))
    ELSE
    LET g == [f EXCEPT !.two = user_input]
        e1 == ErrorIf(~MatchFourDigits(user_input.postcode), NoErrors,
                      CONF_POSTCODE, "invalid_postcode")
        e2 == ErrorIf(Strip(user_input.forecast_name) = <<>>, e1,
                      CONF_FORECAST_NAME, "real_time_name_empty")
        e3 == ErrorIf(user_input.update_interval < 1, e2,
                      CONF_UPDATE_INTERVAL, "update_interval_too_low")
    IN IF DictTruthy(e3) THEN ShowForm(g, "user_two", e3)
       ELSE async_step_user_three(
                [g EXCEPT !.post_code = PyInt(StrToInt(user_input.postcode)),
                          !.forecast_name = PyStr(Strip(user_input.forecast_name)),
                          !.update_interval = PyInt(user_input.update_interval)],
                NoInput, closest)

\* async_step_user. Latitude and longitude are whole degrees.
async_step_user(f, user_input, geodata) ==
    IF user_input = NoInput THEN ShowForm(f, "user", NoErrors)
    ELSE
    LET e1 == ErrorIf(user_input.latitude > 90 \/ user_input.latitude < -90,
                      NoErrors, "lat", "latitude_error")
        e2 == ErrorIf(user_input.longitude > 180 \/ user_input.longitude < -180,
                      e1, "lon", "longitude_error")
    IN IF DictTruthy(e2) THEN ShowForm(f, "user", e2)
       ELSE async_step_user_two([f EXCEPT !.lat = PyInt(user_input.latitude),
                                          !.lon = PyInt(user_input.longitude)],
                                NoInput, geodata, <<>>)

\* What the user may submit to each step, and what the client may answer.
UserInputs == [latitude : {47, 91}, longitude : {8, 181}]
Postcodes ==
    {<<"8", "0", "0", "0">>, <<"8", "0", "0">>, <<"8", "0", "0", "0", "0">>,
     <<"8", "0", "a", "0">>, <<"8", "0", "0", "0", "\n">>}
ForecastNames == {<<"Z">>, <<" ", "Z">>, <<" ">>, <<>>}
Intervals == {0, 1, 5}
TwoInputs ==
    [postcode : Postcodes, forecast_name : ForecastNames,
     update_interval : Intervals]
StationNames == {<<"a">>, <<" ">>}
ThreeInputs ==
    [station : DOMAIN WeatherStations,
     real_time_name : StationNames,
     precipitation_station : DOMAIN PrecipitationStations,
     real_time_precipitation_name : StationNames]
ClosestStations == {<<>>, <<"A", "B", "C">>}

\* The flow manager calls the step whose form is shown.
StartFlow ==
    /\ flow.step = "init"
    /\ flow' = async_step_user(flow, NoInput, TRUE)
    /\ UNCHANGED <<coordVars, call, hass>>

SubmitUser(user_input, geodata) ==
    /\ flow.step = "user"
    /\ flow' = async_step_user(flow, user_input, geodata)
    /\ UNCHANGED <<coordVars, call, hass>>

SubmitUserTwo(user_input, closest) ==
    /\ flow.step = "user_two"
    /\ flow' = async_step_user_two(flow, user_input, TRUE, closest)
    /\ UNCHANGED <<coordVars, call, hass>>

SubmitUserThree(user_input) ==
    /\ flow.step = "user_three"
    /\ flow' = async_step_user_three(flow, user_input, <<>>)
    /\ UNCHANGED <<coordVars, call, hass>>

\* The YAML configurations of the domain: a postal code and a name, and any
\* of the update interval, the two stations and the precipitation name.
FullYaml ==
    (CONF_POSTCODE :> PyInt(8000)
     @@ CONF_NAME :> PyStr(<<"Z">>)
     @@ CONF_UPDATE_INTERVAL :> PyInt(10)
     @@ CONF_STATION :> PyStr(<<"A", "B", "C">>)
     @@ CONF_PRECIPITATION_STATION :> PyStr(<<"X", "Y", "Z">>)
     @@ CONF_PRECIPITATION_NAME :> PyStr(<<"a">>))
YamlConfigs ==
    {[k \in {CONF_POSTCODE, CONF_NAME} \cup S |-> FullYaml[k]] :
        S \in SUBSET (DOMAIN FullYaml \ {CONF_POSTCODE, CONF_NAME})}

\* The issue (DOMAIN, "deprecated_yaml"), in the shape of IssueId.
DeprecatedYaml == <<"", "", "deprecated_yaml", DOMAIN_NAME>>

\* async_setup finds the domain in the YAML configuration and starts a flow
\* with the source "import": the flow manager calls async_step_import.
ImportYaml(import_config) ==
    /\ flow.step = "init"
    /\ issues' = issues \cup {DeprecatedYaml}
    /\ flow' = async_step_import(flow, import_config)
    /\ UNCHANGED <<conf, first_error, error_raised, data, now, pc, fetches,
                   pending, lastResult, calls, runStart, refreshTime, prevData,
                   weather, sensors, call, hass>>

InitFlow ==
    /\ InitCoordinator
    /\ conf = FullConfig
    /\ call = NoCall
    /\ flow = NewFlow
    /\ hass = NoHass

NextFlow ==
    \/ StartFlow
    \/ \E user_input \in UserInputs, geodata \in BOOLEAN :
          SubmitUser(user_input, geodata)
    \/ \E user_input \in TwoInputs, closest \in ClosestStations :
          SubmitUserTwo(user_input, closest)
    \/ \E user_input \in ThreeInputs : SubmitUserThree(user_input)
    \/ \E import_config \in YamlConfigs : ImportYaml(import_config)

SpecFlow == InitFlow /\ [][NextFlow]_vars

(***************************************************************************)
(* __init__.py: async_setup_entry and async_unload_entry.  hass.data is   *)
(* the set of the entry ids a coordinator is registered under; hass.state *)
(* says where Home Assistant stands with the entry, hass.setup and         *)
(* hass.unload what the last setup and the last unload since returned.     *)
(***************************************************************************)
EntryId == "entry1"

\* f"{entry_id}_improperly_configured_{DOMAIN}", in the shape of IssueId
ImproperlyConfigured == <<EntryId, "", "improperly_configured", DOMAIN_NAME>>

\* entry.data.get(CONF_FORECAST_NAME, entry.data.get(CONF_REAL_TIME_NAME,
\*                entry.data.get(CONF_NAME, "")))
ResolveName(d) ==
    IF CONF_FORECAST_NAME \in DOMAIN d THEN d[CONF_FORECAST_NAME]
    ELSE IF CONF_REAL_TIME_NAME \in DOMAIN d THEN d[CONF_REAL_TIME_NAME]
    ELSE IF CONF_NAME \in DOMAIN d THEN d[CONF_NAME]
    ELSE ""

\* The names a config entry may carry: any of the three keys, the forecast
\* name possibly empty.
EntryDatas ==
    UNION {{d \in [S -> {"", "Zurich"}] :
               \A k \in S \ {CONF_FORECAST_NAME} : d[k] = "Zurich"} :
           S \in SUBSET {CONF_FORECAST_NAME, CONF_REAL_TIME_NAME, CONF_NAME}}

NewHass(d) ==
    [data |-> {}, entry |-> d, state |-> "not_loaded", setup |-> "none",
     unload |-> "none"]

\* Home Assistant sets an entry up when it is not loaded, and again after a
\* setup that was not ready.
CanSetUp == hass.state \in {"not_loaded", "setup_retry"} /\ pc = "idle"

\* async_setup_entry of an entry without a name (lines 58-83): the issue is
\* created and the setup returns False.
SetupEntryUnnamed ==
    /\ CanSetUp
    /\ ~Truthy(ResolveName(hass.entry))
    /\ issues' = issues \cup {ImproperlyConfigured}
    /\ hass' = [hass EXCEPT !.state = "setup_error", !.setup = "False",
                            !.unload = "none"]
    /\ call' = NoCall
    /\ UNCHANGED <<conf, first_error, error_raised, data, now, pc, fetches,
                   pending, lastResult, calls, runStart, refreshTime, prevData,
                   weather, sensors, flow>>

\* async_setup_entry of an entry with a name, up to the await of the first
\* refresh (lines 58-104): a coordinator is constructed and refreshes.
SetupEntry ==
    /\ CanSetUp
    /\ Truthy(ResolveName(hass.entry))
    /\ first_error' = [n \in Names |-> PyFalse]
    /\ error_raised' = [n \in Names |-> FALSE]
    /\ data' = NoSnapshot
    /\ pc' = "fetching"
    /\ fetches' = 1
    /\ pending' = {}
    /\ lastResult' = [fetch |-> "none", status |-> "none",
                      raw |-> NoSnapshot, value |-> NoSnapshot]
    /\ calls' = {}
    /\ runStart' = [n \in Names |-> PyNone]
    /\ refreshTime' = PyNone
    /\ prevData' = NoSnapshot
    /\ hass' = [hass EXCEPT !.state = "setup_in_progress", !.setup = "pending",
                            !.unload = "none"]
    /\ call' = NoCall
    /\ UNCHANGED <<conf, issues, now, weather, sensors, flow>>

\* The first refresh did not succeed: async_config_entry_first_refresh
\* raises ConfigEntryNotReady out of async_setup_entry (line 104).
SetupNotReady ==
    [hass EXCEPT !.state = "setup_retry", !.setup = "ConfigEntryNotReady"]

\* Variant of the registration that does not wait for the first refresh.
RegisterCoordinator_BeforeRefresh ==
    /\ hass.state = "setup_in_progress"
    /\ EntryId \notin hass.data
    /\ hass' = [hass EXCEPT !.data = @ \cup {EntryId}]
    /\ call' = NoCall
    /\ UNCHANGED <<coordVars, flow>>

\* hass.data.setdefault(DOMAIN, {})[entry.entry_id] = coordinator (line 108),
\* after the first refresh returned.
RegisterCoordinator ==
    /\ hass.state = "setup_in_progress"
    /\ pc = "setup"
    /\ EntryId \notin hass.data
    /\ hass' = [hass EXCEPT !.data = @ \cup {EntryId}]
    /\ call' = NoCall
    /\ UNCHANGED <<coordVars, flow>>

\* async_forward_entry_setups and return True (lines 110-115): each platform
\* takes the coordinator from hass.data[DOMAIN][entry.entry_id]
\* (sensor.py:41, weather.py:55).
SetupPlatforms ==
    /\ hass.state = "setup_in_progress"
    /\ EntryId \in hass.data
    /\ ForwardEntrySetups
    /\ hass' = [hass EXCEPT !.state = "loaded", !.setup = "True"]
    /\ call' = NoCall
    /\ UNCHANGED flow

\* async_unload_entry (lines 123-133); unload_ok is what
\* async_unload_platforms returned. The platforms that unloaded removed their
\* entities.
async_unload_entry(unload_ok) ==
    /\ hass.state = "loaded"
    /\ pc = "idle"
    /\ hass' = IF unload_ok
               THEN [hass EXCEPT !.data = @ \ {EntryId},
                                 !.state = "not_loaded", !.unload = "True"]
               ELSE [hass EXCEPT !.state = "failed_unload",
                                 !.unload = "False"]
    /\ weather' = IF unload_ok THEN NoEntity ELSE weather
    /\ sensors' = IF unload_ok THEN [st \in StationTypes |-> NoEntity]
                  ELSE sensors
    /\ call' = NoCall
    /\ UNCHANGED <<conf, first_error, error_raised, issues, data, now, pc,
                   fetches, pending, lastResult, calls, runStart, refreshTime,
                   prevData, flow>>

InitSetup ==
    /\ InitCoordinator
    /\ conf = FullConfig
    /\ call = NoCall
    /\ flow = NoFlow
    /\ hass \in {NewHass(d) : d \in EntryDatas}

NextSetup ==
    \/ SetupEntryUnnamed
    \/ SetupEntry
    \/ \E kind \in FetchFailures :
          /\ hass.state = "setup_in_progress"
          /\ FetchFailed(kind)
          /\ hass' = SetupNotReady
          /\ call' = NoCall /\ UNCHANGED flow
    \/ \E raw \in ClientResults(conf) :
          /\ hass.state = "setup_in_progress"
          /\ FetchSucceeded(raw)
          /\ hass' = IF pc' = "setup" THEN hass ELSE SetupNotReady
          /\ call' = NoCall /\ UNCHANGED flow
    \/ RegisterCoordinator
    \/ SetupPlatforms
    \/ \E unload_ok \in BOOLEAN : async_unload_entry(unload_ok)

SpecSetup == InitSetup /\ [][NextSetup]_vars

(***************************************************************************)
(* Properties of the per-source error tracking.                            *)
(***************************************************************************)
\* The seconds the no-data run of source n had lasted at the latest
\* successful refresh.
RunElapsed(n) == refreshTime.v - runStart[n].v
Configured(n) == Truthy(StationOf(conf, n))
InRun(n) == Configured(n) /\ runStart[n] # PyNone
Raised(n) == <<"create", n>> \in calls
IssueExists(n) == IssueId(StationOf(conf, n), n) \in issues

\* C1: once a refresh finds a configured source without data more than 3600
\* seconds after the first refresh of its no-data run, the persistent-failure
\* issue of that source exists and the source is marked as raised.
C1_PersistentFailureRaised ==
    \A n \in Names :
        (InRun(n) /\ RunElapsed(n) > MAX_CONTINUOUS_ERROR_TIME)
            => (IssueExists(n) /\ error_raised[n])

\* C2: the persistent-failure issue is never raised early: a refresh creates
\* it, and it exists, only for a source whose no-data run has lasted more than
\* 3600 seconds at that refresh.
C2_NeverRaisedEarly ==
    \A n \in Names :
        (Raised(n) \/ IssueExists(n))
            => (InRun(n) /\ RunElapsed(n) > MAX_CONTINUOUS_ERROR_TIME)

\* A successful refresh found a configured source without data within the
\* threshold (at the very start of its run or at exactly 3600 seconds) and did
\* not raise the issue.
C2_Witness ==
    \E n \in Names :
        /\ lastResult.status = "ok"
        /\ InRun(n)
        /\ RunElapsed(n) = MAX_CONTINUOUS_ERROR_TIME
        /\ ~Raised(n)
        /\ ~IssueExists(n)

C4_DataClearsErrorState ==
    \A n \in Names :
        (Configured(n) /\ lastResult.status = "ok"
            /\ ~NoData(lastResult.raw, StationOf(conf, n)))
            => (/\ first_error[n] = PyNone
                /\ ~error_raised[n]
                /\ ~IssueExists(n)
                /\ ~Raised(n))

\* A refresh with data for a configured source has cleared its failure start
\* while the other source is in a no-data run.
C4_Witness ==
    \E n \in Names, m \in Names :
        /\ lastResult.status = "ok"
        /\ Configured(n)
        /\ ~NoData(lastResult.raw, StationOf(conf, n))
        /\ first_error[n] = PyNone
        /\ InRun(m)

\* C5: throughout a no-data run of a configured source, its failure start is
\* the clock of the first refresh of the run.
C5_FailureStartIsRunStart ==
    \A n \in Names : InRun(n) => first_error[n] = runStart[n]

\* C6: before any refresh has run, each source's error state is the one a
\* refresh with data leaves: failure start None, raised flag False.
C6_ConstructedNoError ==
    (lastResult.status = "none" /\ pc = "idle")
        => \A n \in Names : first_error[n] = PyNone /\ ~error_raised[n]

(***************************************************************************)
(* Properties of the refresh as a whole.                                   *)
(***************************************************************************)
\* C7: a refresh whose fetch fails ends in UpdateFailed, returns no snapshot,
\* has called the client once, and neither that step nor the calls of the
\* listeners that follow change the published snapshot.
C7_FetchFailureKeepsSnapshot ==
    [][lastResult'.fetch = "failed"
          => (/\ lastResult'.status = "UpdateFailed"
              /\ lastResult'.value = NoSnapshot
              /\ fetches' = 1
              /\ data' = data
              /\ weather # NoEntity
                    => weather'.forecastData = weather.forecastData
                       /\ weather'.condition_for_all_stations
                            = weather.condition_for_all_stations)]_vars

\* A refresh has failed after a snapshot was published, the listeners have
\* been called, and the entities hold that snapshot.
C7_Witness ==
    /\ lastResult.status = "UpdateFailed"
    /\ pc = "idle"
    /\ data # NoSnapshot
    /\ weather # NoEntity
    /\ weather.forecastData = data["forecast"]
    /\ \E st \in StationTypes : sensors[st] # NoEntity /\ sensors[st].data = data

\* C8: a refresh whose fetch succeeds returns a snapshot, which becomes the
\* published one, whatever the records of the stations and the error state.
C8_NoDataIsNotAFailure ==
    lastResult.fetch = "ok"
        => (/\ lastResult.status = "ok"
            /\ lastResult.value # NoSnapshot
            /\ data = lastResult.value)

\* A refresh succeeded with one source without data, counted from a recorded
\* failure start, and the other source absent from the payload altogether.
C8_Witness ==
    \E n \in Names, m \in Names :
        /\ lastResult.status = "ok"
        /\ InRun(n) /\ first_error[n].t = "float"
        /\ InRun(m) /\ first_error[m].t = "bool"
        /\ StationOf(conf, m) \notin DOMAIN lastResult.raw["condition_by_station"]

\* C9: the snapshot a successful refresh returns carries the configured
\* postal code, forecast name, station ids and names, and the fetched
\* forecast and conditions as they were fetched.
C9_SnapshotCarriesMetadata ==
    lastResult.status = "ok"
        => LET v == lastResult.value
               raw == lastResult.raw
           IN /\ v[CONF_POSTCODE] = conf.post_code
              /\ v[CONF_FORECAST_NAME] = conf.forecast_name
              /\ v[CONF_STATION] = conf.weather_station
              /\ v[CONF_REAL_TIME_NAME] = conf.real_time_weather_station_name
              /\ v[CONF_PRECIPITATION_STATION] = conf.precipitation_station
              /\ v[CONF_REAL_TIME_PRECIPITATION_NAME]
                    = conf.real_time_precipitation_station_name
              /\ \A k \in DOMAIN raw : v[k] = raw[k]

\* A snapshot was returned for an entry with a precipitation station and no
\* weather station.
C9_Witness ==
    /\ lastResult.status = "ok"
    /\ lastResult.value[CONF_STATION] = None
    /\ lastResult.value[CONF_REAL_TIME_NAME] = None
    /\ lastResult.value[CONF_PRECIPITATION_STATION] = PrecipitationStationId
    /\ lastResult.value[CONF_REAL_TIME_PRECIPITATION_NAME] = "Zurich Kloten"
    /\ PrecipitationStationId \in DOMAIN lastResult.value["condition_by_station"]

(***************************************************************************)
(* Properties of the readers.                                              *)
(***************************************************************************)
\* The published snapshot is complete: it holds the payload and the metadata.
Complete(d) ==
    DOMAIN d = {"forecast", "condition", "condition_by_station", CONF_POSTCODE,
                CONF_FORECAST_NAME, CONF_STATION, CONF_REAL_TIME_NAME,
                CONF_PRECIPITATION_STATION, CONF_REAL_TIME_PRECIPITATION_NAME}

\* Everything entity l holds is what it would hold of snapshot d alone.
HoldsOnly(l, d) ==
    IF l = "weather" THEN weather = NewWeather(d)
    ELSE sensors[l] = NewSensor(d, l)

\* C10: every entity holds the data of one complete published snapshot: the
\* latest one once its listener has been called, the previous one before.
C10_ReadersSeeOneSnapshot ==
    /\ data # NoSnapshot => Complete(data)
    /\ \A l \in Listeners :
          /\ Complete(data) /\ Complete(prevData)
          /\ IF pc = "notify" /\ l \in pending
             THEN HoldsOnly(l, prevData) ELSE HoldsOnly(l, data)

\* In the middle of the calls of the listeners the weather entity holds the
\* latest snapshot and a sensor still the previous one, which differs in the
\* forecast and in the conditions.
C10_Witness ==
    /\ pc = "notify"
    /\ "weather" \notin pending
    /\ weather = NewWeather(data)
    /\ data["forecast"] # prevData["forecast"]
    /\ data["condition"] # prevData["condition"]
    /\ \E st \in StationTypes : st \in pending /\ sensors[st] = NewSensor(prevData, st)

(***************************************************************************)
(* The classification of icon codes, under SpecReaders.                    *)
(***************************************************************************)
\* The icon code of the forecast the weather entity holds.
Icon == weather.forecastData.currentWeather.icon
IsTableKey(symbolId) ==
    symbolId.t = "int" /\ symbolId.v \in DOMAIN CODE_TO_CONDITION_MAP
\* The classification of icon code c.
Classify(c) == condition([forecastData |-> Forecast(PyInt(c))])
\* The named conditions of the specification.
NamedConditions ==
    {"sunny", "partly_cloudy", "cloudy", "fog", "rainy", "snowy",
     "snowy_rainy", "pouring", "lightning", "lightning_rainy", "clear_night",
     "exceptional", "windy", "windy_variant"}

\* C11: for every icon code that is a key of the table, the weather
\* entity's condition is the condition the table gives for the code, and
\* that condition is one of the named conditions.
C11_KeysClassifiedByTable ==
    (call.op = "condition" /\ IsTableKey(Icon)) =>
        LET member == CODE_TO_CONDITION_MAP[Icon.v][1]
        IN /\ member \in NamedConditions
           /\ call.result = Return(PyStr(Condition[member]))

C11_Witness ==
    /\ call.op = "condition"
    /\ Icon = PyInt(101)
    /\ call.result = Return(PyStr("clear-night"))

\* C12, as stated: for every code c >= 100 with c and c - 100 both keys of
\* the table, the condition of c is the condition of c - 100.
C12_DayNightPairing ==
    (/\ call.op = "condition"
     /\ IsTableKey(Icon)
     /\ Icon.v >= 100
     /\ IsTableKey(PyInt(Icon.v - 100))) =>
        call.result = Classify(Icon.v - 100)

\* C12, amended: the condition of c is the condition of c - 100 unless the
\* code of the day, c - 100, is sunny (codes 101 and 126).
C12_DayNightPairingButSunny ==
    (/\ call.op = "condition"
     /\ IsTableKey(Icon)
     /\ Icon.v >= 100
     /\ IsTableKey(PyInt(Icon.v - 100))
     /\ Classify(Icon.v - 100) # Return(PyStr(Condition["sunny"]))) =>
        call.result = Classify(Icon.v - 100)

C12_Witness ==
    /\ call.op = "condition"
    /\ Icon = PyInt(113)
    /\ call.result = Classify(13)
    /\ call.result = Return(PyStr("lightning-rainy"))

\* C13: for None and for every icon code that is no key of the table the
\* weather entity's condition is "unavailable", which is the value of no
\* named condition, and the read does not raise.
C13_UnknownIsUnavailable ==
    /\ \A m \in DOMAIN Condition : Condition[m] # STATE_UNAVAILABLE
    /\ (call.op = "condition" /\ ~IsTableKey(Icon)) =>
            call.result = Return(PyStr(STATE_UNAVAILABLE))

C13_Witness ==
    /\ call.op = "condition"
    /\ Icon = PyNone
    /\ call.result = Return(PyStr(STATE_UNAVAILABLE))

(***************************************************************************)
(* The extraction of values, under SpecReaders.                            *)
(***************************************************************************)
\* The rows the weather entity holds; the parameter code of the last read.
Rows == weather.condition_for_all_stations
\* A row qualifies for a code when it holds a value for the code that is
\* not None, not the sentinel, and that float() accepts.
Qualifies(row, name) ==
    /\ name \in DOMAIN row
    /\ row[name] # PyNone
    /\ row[name] # PyStr("-")
    /\ ToFloat(row[name]).exc = ""
Qualifying(rows, name) == {i \in 1..Len(rows) : Qualifies(rows[i], name)}

\* C14: condition_name_to_first_value returns the float of the value of
\* the first row, in order, that qualifies for the code, and None when the
\* sequence is empty or no row qualifies.
C14_FirstQualifyingRow ==
    call.op = "first_value" =>
        LET name == call.args[1]
            q == Qualifying(Rows, name)
            first == CHOOSE i \in q : \A j \in q : i <= j
        IN IF q = {} THEN call.result = Return(PyNone)
           ELSE /\ call.result = ToFloat(Rows[first][name])
                /\ call.result.value.t = "float"

C14_Witness ==
    /\ call.op = "first_value"
    /\ call.args = <<"tre200s0">>
    /\ Rows = << [k \in {"tre200s0"} |-> PyStr("-")],
                 [k \in {"tre200s0"} |-> PyStr("7.0")] >>
    /\ call.result = Return(PyFloat(70))

\* The sensor of the last read, its configured station, its snapshot's
\* per-station mapping, and its parameter code.
ReadOf == sensors[call.args[1]]
OwnStation ==
    IF call.args[1] = "WEATHER" THEN conf.weather_station
    ELSE conf.precipitation_station
ByStation == ReadOf.data["condition_by_station"]
DataId == call.args[2]
OwnRecordUsable == OwnStation \in DOMAIN ByStation /\ DOMAIN ByStation[OwnStation] # {}

\* C15: a sensor's value comes from the record of the sensor's own station
\* only: it is None when that station is missing from the mapping or its
\* record is empty or lacks the code, whatever the other station's record
\* holds, and is the own record's value otherwise.
C15_OwnStationOnly ==
    call.op = "sensor" =>
        IF OwnRecordUsable /\ DataId \in DOMAIN ByStation[OwnStation]
        THEN call.result = Return(ByStation[OwnStation][DataId])
        ELSE call.result = Return(PyNone)

C15_Witness ==
    /\ call.op = "sensor"
    /\ call.args = <<"WEATHER", "tre200s0">>
    /\ WeatherStationId \notin DOMAIN ByStation
    /\ PrecipitationStationId \in DOMAIN ByStation
    /\ "tre200s0" \in DOMAIN ByStation[PrecipitationStationId]
    /\ ByStation[PrecipitationStationId]["tre200s0"] = PyFloat(123)
    /\ call.result = Return(PyNone)

\* C16: for every non-empty record of the sensor's station, the sensor's
\* value is what condition_name_to_first_value returns on the one-row
\* sequence of that record, and the sensor is available exactly when that
\* value is not None.
C16_SensorAppliesFirstValueRule ==
    (call.op = "sensor" /\ OwnRecordUsable) =>
        LET v == condition_name_to_first_value(<<ByStation[OwnStation]>>, DataId)
        IN /\ call.result = v
           /\ call.available = Return(PyBool(v.value # PyNone))

\* The record, and the mapping, with the values of one code only.
Restrict(r, k) == [x \in DOMAIN r \cap {k} |-> r[x]]
RestrictRows(rows, k) == [i \in 1..Len(rows) |-> Restrict(rows[i], k)]
RestrictSensor(sn, k) ==
    LET cbs == sn.data["condition_by_station"]
    IN [sn EXCEPT !.data = DictSet(sn.data, "condition_by_station",
                           [x \in DOMAIN cbs |-> Restrict(cbs[x], k)])]

\* C17: neither condition_name_to_first_value nor the sensor's native_value
\* and available raises, whatever the snapshot holds, and each returns what
\* it returns on the snapshot without the values of every other code.
C17_ExtractionNeverRaises ==
    /\ call.op = "first_value" =>
          /\ call.result.exc = ""
          /\ call.result =
                condition_name_to_first_value(RestrictRows(Rows, call.args[1]),
                                              call.args[1])
    /\ call.op = "sensor" =>
          /\ call.result.exc = ""
          /\ call.available.exc = ""
          /\ call.result = native_value(RestrictSensor(ReadOf, DataId), DataId)
          /\ call.available = available(RestrictSensor(ReadOf, DataId), DataId)

C17_Witness ==
    /\ call.op = "first_value"
    /\ call.args = <<"prestas0">>
    /\ Len(Rows) = 1
    /\ DOMAIN Rows[1] = {"tre200s0", "prestas0"}
    /\ Rows[1]["tre200s0"] = PyStr("abc")
    /\ call.result = Return(PyFloat(9600))

(***************************************************************************)
(* The frame of the error state, under Spec.                               *)
(***************************************************************************)
\* C18: first_error, error_raised and the issue registry change, and an
\* issue-registry call is made, only in the step of a refresh that follows
\* a successful fetch: not when the fetch fails, not when a listener handles
\* the update, not when a property is read, not when the platforms are set
\* up or the entry is unloaded.
C18_ErrorStateFrame ==
    [][(\/ first_error' # first_error
        \/ error_raised' # error_raised
        \/ issues' # issues
        \/ ~(calls' \subseteq calls))
          => (/\ pc = "fetching"
              /\ pc' # "fetching"
              /\ lastResult'.fetch = "ok")]_vars

\* After a refresh has changed the error state, a later refresh has failed,
\* the listeners have been called and a sensor has been read.
C18_Witness ==
    /\ lastResult.fetch = "failed"
    /\ call.op = "sensor"
    /\ \E n \in Names : first_error[n] = PyNone

(***************************************************************************)
(* The config flow, under SpecFlow.                                        *)
(***************************************************************************)
\* What the flow has stored.
Stored == <<flow.post_code, flow.forecast_name, flow.update_interval>>
PostcodeOk(ui) ==
    Len(ui.postcode) = 4 /\ \A i \in 1..4 : ui.postcode[i] \in Digits
NameOk(ui) ==
    \E i \in 1..Len(ui.forecast_name) : ui.forecast_name[i] \notin Whitespace
IntervalOk(ui) == ui.update_interval >= 1
\* The fields of a step-two input that violate the rules.
Offending(ui) ==
    (IF PostcodeOk(ui) THEN {} ELSE {CONF_POSTCODE})
    \cup (IF NameOk(ui) THEN {} ELSE {CONF_FORECAST_NAME})
    \cup (IF IntervalOk(ui) THEN {} ELSE {CONF_UPDATE_INTERVAL})

\* C19: a submission to the second step gets past that step, and an entry
\* is created, only when the postal code is exactly 4 digits, the forecast
\* name is not blank and the update interval is at least 1; otherwise the
\* second step is shown again with an error for each offending field and
\* the stored postal code, name and interval are unchanged.
C19_StepTwoValidates ==
    [][(flow.step = "user_two" /\ flow' # flow) =>
          IF Offending(flow'.two) = {}
          THEN TRUE
          ELSE /\ flow'.step = "user_two"
               /\ flow'.result = "form"
               /\ DOMAIN flow'.errors = Offending(flow'.two)
               /\ Stored' = Stored]_vars

\* The identifier is three word characters.
ThreeCharCode(id) == Len(id) = 3 /\ \A i \in 1..3 : id[i] \in WordChars
\* The selection of the last step-three input names a station whose
\* identifier is no three-character code.
BadSelection(stations, selection) ==
    stations[selection] # <<>> /\ ~ThreeCharCode(stations[selection])
Rejected(field) ==
    /\ flow.step = "user_three"
    /\ flow.result = "form"
    /\ field \in DOMAIN flow.errors
    /\ flow.errors[field] = "invalid_station_name"

\* C20: every station identifier in the data of a created entry is a
\* three-character code, and the third step shows its form again with
\* invalid_station_name on the field of any selected weather or
\* precipitation station whose identifier is no three-character code.
C20_StationIdsAreThreeChars ==
    /\ flow.step = "done" =>
          \A k \in {CONF_STATION, CONF_PRECIPITATION_STATION} \cap DOMAIN flow.entry :
              ThreeCharCode(flow.entry[k].v)
    /\ (flow.step \in {"user_three", "done"} /\ flow.three # NoInput) =>
          /\ BadSelection(WeatherStations, flow.three.station)
                => Rejected(CONF_STATION)
          /\ BadSelection(PrecipitationStations, flow.three.precipitation_station)
                => Rejected(CONF_PRECIPITATION_STATION)

(***************************************************************************)
(* The forecasts of the weather entity.                                    *)
(***************************************************************************)
\* The days and the hours of the forecast the weather entity holds.
Days == weather.forecastData.regionForecast
Hours == weather.forecastData.regionHourlyForecast
WellFormedDay(d) == DayKeys \subseteq DOMAIN d

\* A read of the daily forecast of a one-day region forecast whose day
\* carries the icon code of the current weather.
OneDayRead ==
    /\ call.op = "forecast_daily"
    /\ Len(Days) = 1
    /\ WellFormedDay(Days[1])
    /\ Days[1]["iconDay"] = Icon

\* C21: the daily forecast classifies the icon code of a day as the current
\* condition classifies the same icon code, for known, unknown and null codes:
\* the entry of the day is there and its condition is the current condition.
C21_DailyConditionIsCurrentCondition ==
    OneDayRead =>
        /\ call.result.exc = ""
        /\ Len(call.result.value) = 1
        /\ call.result.value[1].condition = condition(weather).value

(***************************************************************************)
(* The third step of the flow: the two stations are optional.             *)
(***************************************************************************)
\* The selection is "no station" or a station with a three-character code,
\* and the name submitted with a selected station is not blank.
ValidSelection(stations, selection, name) ==
    \/ stations[selection] = <<>>
    \/ ThreeCharCode(stations[selection]) /\ Strip(name) # <<>>

\* The entry holds the station's id and name under the two keys when the
\* station was selected, and neither key when it was not.
HoldsExactly(entry, idKey, nameKey, id, name) ==
    IF id = <<>> THEN {idKey, nameKey} \cap DOMAIN entry = {}
    ELSE /\ {idKey, nameKey} \subseteq DOMAIN entry
         /\ entry[idKey] = PyStr(id)
         /\ entry[nameKey] = PyStr(Strip(name))

\* C22: the weather station and the precipitation station are optional
\* independently: after a submission of the third step with valid selections
\* (none, weather only, precipitation only, both) and non-blank names the
\* entry is created, with the ids and names of exactly the selected stations.
C22_StationsIndependentlyOptional ==
    (/\ flow.step \in {"user_three", "done"}
     /\ flow.three # NoInput
     /\ ValidSelection(WeatherStations, flow.three.station,
                       flow.three.real_time_name)
     /\ ValidSelection(PrecipitationStations, flow.three.precipitation_station,
                       flow.three.real_time_precipitation_name))
    => /\ flow.step = "done"
       /\ flow.result = "create_entry"
       /\ HoldsExactly(flow.entry, CONF_STATION, CONF_REAL_TIME_NAME,
                       WeatherStations[flow.three.station],
                       flow.three.real_time_name)
       /\ HoldsExactly(flow.entry, CONF_PRECIPITATION_STATION,
                       CONF_REAL_TIME_PRECIPITATION_NAME,
                       PrecipitationStations[flow.three.precipitation_station],
                       flow.three.real_time_precipitation_name)

\* The dates of a sequence of days or of entries of the daily forecast.
DatesOf(days) == [i \in 1..Len(days) |-> days[i]["dayDate"]]
EntryDates(entries) == [i \in 1..Len(entries) |-> entries[i].datetime]

\* C23: the daily forecast skips the first element of the region forecast:
\* of n well-formed days it returns the entries of days 2..n, in order.
C23_DailySkipsFirstDay ==
    (/\ call.op = "forecast_daily"
     /\ \A i \in 1..Len(Days) : WellFormedDay(Days[i]))
    => /\ call.result.exc = ""
       /\ EntryDates(call.result.value) = DatesOf(SubSeq(Days, 2, Len(Days)))

(***************************************************************************)
(* The import of a YAML configuration.                                     *)
(***************************************************************************)
\* The value the entry holds under a key, PyNone when it holds none.
EntryGet(k) == IF k \in DOMAIN flow.entry THEN flow.entry[k] ELSE PyNone
Given(k) == k \in DOMAIN flow.imported

\* C24: the import step, given a configuration with a postal code and a
\* name, raises no error and creates an entry whose forecast name is the
\* configured name, whose update interval is the configured one or the
\* default of 5, and which holds the id and the name of each station given.
C24_ImportCreatesEntry ==
    flow.imported # NoInput =>
        /\ flow.step = "done"
        /\ flow.result = "create_entry"
        /\ EntryGet(CONF_FORECAST_NAME) = flow.imported[CONF_NAME]
        /\ EntryGet(CONF_UPDATE_INTERVAL) =
              (IF Given(CONF_UPDATE_INTERVAL)
               THEN flow.imported[CONF_UPDATE_INTERVAL] ELSE PyInt(5))
        /\ Given(CONF_STATION) =>
              /\ EntryGet(CONF_STATION) = flow.imported[CONF_STATION]
              /\ EntryGet(CONF_REAL_TIME_NAME) # PyNone
        /\ Given(CONF_PRECIPITATION_STATION) =>
              /\ EntryGet(CONF_PRECIPITATION_STATION) =
                    flow.imported[CONF_PRECIPITATION_STATION]
              /\ EntryGet(CONF_REAL_TIME_PRECIPITATION_NAME) # PyNone

(***************************************************************************)
(* The registry of the coordinators.                                       *)
(***************************************************************************)
Registered == EntryId \in hass.data

\* The entry's last setup returned True and no unload since returned True.
SetUpAndNotUnloaded == hass.setup = "True" /\ hass.unload # "True"

\* The setup is between its registration and its return: the first refresh
\* has published its snapshot and no platform has made an entity.
BetweenRefreshAndPlatforms ==
    /\ hass.setup = "pending"
    /\ lastResult.status = "ok"
    /\ data # NoSnapshot
    /\ Listeners = {}

\* C25: a coordinator is registered under the entry id exactly when the
\* entry's setup returned True and no later unload returned True, but for
\* the setup itself, which registers after the successful first refresh and
\* before the platforms are set up; a setup without a resolvable name
\* returns False, leaves the improperly_configured issue and registers
\* nothing; an unload whose platform unload failed leaves the registration.
C25_RegisteredIffSetUp ==
    /\ SetUpAndNotUnloaded => Registered
    /\ Registered => SetUpAndNotUnloaded \/ BetweenRefreshAndPlatforms
    /\ Listeners # {} => Registered
    /\ (hass.setup # "none" /\ ~Truthy(ResolveName(hass.entry))) =>
          /\ hass.setup = "False"
          /\ ImproperlyConfigured \in issues
          /\ ~Registered
    /\ hass.setup = "False" => ~Truthy(ResolveName(hass.entry))
    /\ hass.unload = "False" => Registered

\* The platforms did not unload: the coordinator of the entry that was set
\* up is still registered.
C25_Witness ==
    /\ hass.setup = "True"
    /\ hass.unload = "False"
    /\ Registered

\* The positions of the hours later than the time of the read of the hourly
\* forecast, and the times of a sequence of hours or of entries.
LaterHours == {i \in 1..Len(Hours) : Hours[i]["time"] > call.args[1]}
TimesOf(hours) == [i \in 1..Len(hours) |-> hours[i]["time"]]
EntryTimes(entries) == [i \in 1..Len(entries) |-> entries[i].datetime.v]

\* C26: the hourly forecast never raises, and it is the empty list when the
\* sequence of hours is empty or holds no entry later than now.
C26_HourlyNeverRaises ==
    call.op = "forecast_hourly" =>
        /\ call.result.exc = ""
        /\ LaterHours = {} => call.result.value = <<>>

\* C27: of an ascending sequence of hours with an entry later than now, the
\* hourly forecast holds, in order, every entry later than now, preceded by
\* at most the entry just before the first of them; so too when the first
\* entry of the sequence is later than now.
C27_HourlyHoldsEveryLaterHour ==
    (call.op = "forecast_hourly" /\ LaterHours # {}) =>
        LET first == CHOOSE i \in LaterHours : \A j \in LaterHours : i <= j
            later == TimesOf(SubSeq(Hours, first, Len(Hours)))
        IN /\ call.result.exc = ""
           /\ \/ EntryTimes(call.result.value) = later
              \/ /\ first > 1
                 /\ EntryTimes(call.result.value) =
                       <<Hours[first - 1]["time"]>> \o later

(***************************************************************************)
(* The availability of a sensor.                                           *)
(***************************************************************************)
\* The record of the station of the sensor that was read, <<>> when the
\* snapshot has none for it.
OwnRecord ==
    LET s == sensors[call.args[1]]
        cbs == s.data["condition_by_station"]
    IN IF s.attr_station \in DOMAIN cbs THEN cbs[s.attr_station]
       ELSE EmptyRecord

\* The record is not empty and holds a value other than None for the code.
HoldsValue(record, dataId) ==
    /\ DOMAIN record # {}
    /\ dataId \in DOMAIN record
    /\ record[dataId] # PyNone

\* C28: a sensor is available exactly when its station has a non-empty
\* record with a value other than None for the sensor's parameter code, and
\* whenever it is not available its native value is None.
C28_AvailableIffValue ==
    call.op = "sensor" =>
        /\ call.available.exc = ""
        /\ call.available.value = PyBool(HoldsValue(OwnRecord, call.args[2]))
        /\ call.available.value = PyFalse =>
              call.result = Return(PyNone)
        /\ call.available.value = PyTrue =>
              call.result = Return(OwnRecord[call.args[2]])

\* A sensor that is not available because its record holds None for its code.
C28_Witness ==
    /\ call.op = "sensor"
    /\ call.available.value = PyFalse
    /\ call.args[2] \in DOMAIN OwnRecord

(***************************************************************************)
(* The two sources are tracked independently.                              *)
(***************************************************************************)
OtherName(n) == CHOOSE m \in Names : m # n

\* The fetched payload with the record of one station replaced, or removed.
WithRecordOf(raw, station, piece) ==
    LET cbs == raw["condition_by_station"]
    IN [raw EXCEPT !["condition_by_station"] =
           [s \in (DOMAIN cbs \ {station}) \cup DOMAIN piece |->
               IF s \in DOMAIN piece THEN piece[s] ELSE cbs[s]]]

\* What the loop over the sources leaves for the source n, had the other
\* source been in the state (ofe, oer) and delivered the record of `piece`.
TrackedWith(n, raw, ofe, oer, piece) ==
    LET m == OtherName(n)
        st0 == [fe |-> [first_error EXCEPT ![m] = ofe],
                er |-> [error_raised EXCEPT ![m] = oer],
                issues |-> issues, calls |-> {}, err |-> FALSE]
    IN TrackSources(st0, conf,
                    WithRecordOf(raw, StationOf(conf, m), piece), now)

\* The refresh left for the source n what the state st holds for it.
SameForSource(n, st) ==
    /\ first_error'[n] = st.fe[n]
    /\ error_raised'[n] = st.er[n]
    /\ \A op \in {"create", "delete"} :
          <<op, n>> \in calls' <=> <<op, n>> \in st.calls
    /\ Truthy(StationOf(conf, n)) =>
          (IssueId(StationOf(conf, n), n) \in issues'
              <=> IssueId(StationOf(conf, n), n) \in st.issues)

\* C29: in a refresh, what becomes of a source's failure start, raised flag
\* and notification is the same whatever the other source's state and
\* record are; and a source that is not configured keeps its error state and
\* has no notification raised or retracted.
C29_SourcesTrackedIndependently ==
    [][ (pc = "fetching" /\ lastResult'.fetch = "ok") =>
          \A n \in Names :
             /\ \A ofe \in {PyFalse, PyNone, PyFloat(StartTime)},
                   oer \in BOOLEAN,
                   piece \in UNION {[S -> Records] :
                                S \in SUBSET {StationOf(conf, OtherName(n))}} :
                   SameForSource(n, TrackedWith(n, lastResult'.raw,
                                                ofe, oer, piece))
             /\ ~Truthy(StationOf(conf, n)) =>
                   /\ first_error'[n] = first_error[n]
                   /\ error_raised'[n] = error_raised[n]
                   /\ \A op \in {"create", "delete"} : <<op, n>> \notin calls'
                   /\ \A i \in issues' \ issues : i[2] # n
      ]_vars

\* A refresh of an entry with both stations in which the weather station
\* delivered nothing and the precipitation station a record.
C29_Witness ==
    /\ lastResult.status = "ok"
    /\ Truthy(conf.weather_station) /\ Truthy(conf.precipitation_station)
    /\ NoData(lastResult.raw, conf.weather_station)
    /\ ~NoData(lastResult.raw, conf.precipitation_station)
    /\ first_error[CONF_REAL_TIME_NAME] # PyNone
    /\ first_error[CONF_REAL_TIME_PRECIPITATION_NAME] = PyNone

====
